---- MODULE Spec2Model ----
(***************************************************************************)
(* Automatic Tab Killer: the background script's tab lifecycle engine.     *)
(* The script is the code block of src/README.md (lines 38-647): the       *)
(* Activity Ledger (tabActivity), the pattern rules and the duplicate      *)
(* resolver (shouldCloseTab), the bounded history (addToHistory), the      *)
(* Unload Tracker (unloadedTabs) and the sweeps checkInactiveTabs,         *)
(* checkUnloadTabs, manuallyUnloadInactiveTabs, checkAndKillUnloadedTabs.  *)
(*                                                                         *)
(* JavaScript runs one handler at a time; a handler is suspended only at   *)
(* an await on a browser call.  Each action below is the code between two  *)
(* such suspension points.                                                 *)
(***************************************************************************)
EXTENDS Integers, Sequences, FiniteSets, TLC

\* ------------------------------------------------------------------ bounds
\* Tab ids are 1..MaxTabs.
MaxTabs == 2
\* Date.now() runs from 1 to MaxClock; one unit is one minute.
MaxClock == 3
\* The same, where the rules of the inactivity sweep are checked.
MaxClockRules == 2
\* The same, where the gate of the scheduled unload sweep is checked.
MaxClockReaper == 5
\* The most browser events (tab created, activated, updated, removed, window
\* focused) in one behaviour.
MaxEvents == 1

\* ------------------------------------------------------- program constants
\* 60 * 1000 ms, in clock units (one unit = one minute).
MinuteMs == 1
\* closedTabs.length > 100 => shift()
HistoryCap == 100
\* 24 * 60 * 60 * 1000 ms, in clock units.
KILL_AFTER_MS == 24 * 60 * MinuteMs

TabIds == 1..MaxTabs

\* ------------------------------------------------------------------- URLs
\* A URL is a sequence of tokens: scheme, then (for https) host, path,
\* an optional query ("?..") and an optional fragment ("#..").
UrlAbout == <<"about:", "blank">>
UrlXq1 == <<"https://", "x.com", "/", "?q=1">>
UrlXq2 == <<"https://", "x.com", "/", "?q=2">>
UrlXp == <<"https://", "x.com", "/p">>
UrlXf == <<"https://", "x.com", "/", "#a">>
UrlY == <<"https://", "y.com", "/">>

QueryTokens == {"?q=1", "?q=2"}

\* url.startsWith('about:')
StartsWithAbout(url) == Len(url) >= 1 /\ url[1] = "about:"

\* getUrlWithoutQuery, the definition in force (the later function
\* declaration replaces the earlier one): urlObj.search = ''; toString().
getUrlWithoutQuery(url) == SelectSeq(url, LAMBDA tok : tok \notin QueryTokens)

\* getDomain: new URL(url).hostname; an about: URL has the empty hostname.
getDomain(url) == IF url[1] = "https://" THEN url[2] ELSE ""

\* --------------------------------------------------------------- patterns
\* A pattern expression is a sequence of tokens; "*" is the wildcard and
\* "(" is an unbalanced parenthesis, which new RegExp() rejects.
Wild == "*"
BadTok == "("

\* new RegExp(`^${patternRegex}$`) throws a SyntaxError.
Malformed(pattern) == \E k \in 1..Len(pattern) : pattern[k] = BadTok

\* matchesPattern for a well-formed pattern: '.' is escaped, '*' becomes
\* '.*', the expression is anchored at both ends.
RECURSIVE GlobMatch(_, _)
GlobMatch(url, pattern) ==
  IF pattern = <<>> THEN url = <<>>
  ELSE IF Head(pattern) = Wild
       THEN \E k \in 0..Len(url) : GlobMatch(SubSeq(url, k + 1, Len(url)), Tail(pattern))
       ELSE url # <<>> /\ Head(url) = Head(pattern) /\ GlobMatch(Tail(url), Tail(pattern))

matchesPattern(url, pattern) == GlobMatch(url, pattern)

PatAboutAll == <<"about:", Wild>>
PatAll == <<Wild>>
PatX == <<Wild, "x.com", Wild>>
PatY == <<Wild, "y.com", Wild>>
\* An expression the options page accepts and new RegExp() rejects: "(".
PatBad == <<BadTok>>

Behaviors == {"duplicate", "duplicate-no-query", "duplicate-domain", "always", "never"}

\* The default of storage.sync.get in checkInactiveTabs.
PresetPatterns == <<[pattern |-> PatAboutAll, action |-> "keep"]>>

\* ----------------------------------------------------- duplicate resolver
SeqRange(s) == {s[k] : k \in 1..Len(s)}

\* allTabs.filter(t => t.id !== tab.id && t.url === tab.url)
ExactDuplicates(tab, allTabs) ==
  {t \in SeqRange(allTabs) : t.id # tab.id /\ t.url = tab.url}

\* allTabs.filter(t => t.id !== tab.id && getUrlWithoutQuery(t.url) === tabUrlNoQuery)
QueryDuplicates(tab, allTabs) ==
  {t \in SeqRange(allTabs) :
     t.id # tab.id /\ getUrlWithoutQuery(t.url) = getUrlWithoutQuery(tab.url)}

\* allTabs.filter(t => t.id !== tab.id && getDomain(t.url) === tabDomain)
DomainDuplicates(tab, allTabs) ==
  {t \in SeqRange(allTabs) : t.id # tab.id /\ getDomain(t.url) = getDomain(tab.url)}

DuplicatesUnder(mode, tab, allTabs) ==
  CASE mode = "duplicate" -> ExactDuplicates(tab, allTabs)
    [] mode = "duplicate-no-query" -> QueryDuplicates(tab, allTabs)
    [] mode = "duplicate-domain" -> DomainDuplicates(tab, allTabs)

\* A variant with the comparison turned round: the newest copy goes.
OlderThanAllReversed(tab, dups) ==
  dups # {} /\ \A t \in dups : tab.lastAccessed > t.lastAccessed

\* A variant without the length test: every() alone holds of an empty list.
OlderThanAllNoLength(tab, dups) ==
  \A t \in dups : tab.lastAccessed < t.lastAccessed

\* A variant with <= in place of <: tied tabs each count as the older one.
OlderThanAllOrTied(tab, dups) ==
  dups # {} /\ \A t \in dups : tab.lastAccessed <= t.lastAccessed

\* duplicates.length > 0 && duplicates.every(t => tab.lastAccessed < t.lastAccessed)
OlderThanAll(tab, dups) ==
  dups # {} /\ \A t \in dups : tab.lastAccessed < t.lastAccessed

DuplicateModes == {"duplicate", "duplicate-no-query", "duplicate-domain"}

Bool2Str(b) == IF b THEN "true" ELSE "false"

\* The for loop over settings.patterns of shouldCloseTab, from index k:
\* "true"/"false" is a return inside the switch, "throw" an exception of
\* matchesPattern, "nomatch" the end of the loop.  An action without a case
\* in the switch ('close') leaves the switch and the loop goes on.
RECURSIVE PatternLoop(_, _, _, _)
PatternLoop(tab, patterns, allTabs, k) ==
  IF k > Len(patterns) THEN "nomatch"
  ELSE IF Malformed(patterns[k].pattern) THEN "throw"
  ELSE IF matchesPattern(tab.url, patterns[k].pattern)
       THEN IF patterns[k].action = "keep" THEN "false"
            ELSE IF patterns[k].action \in DuplicateModes
                 THEN Bool2Str(OlderThanAll(tab, DuplicatesUnder(patterns[k].action, tab, allTabs)))
                 ELSE PatternLoop(tab, patterns, allTabs, k + 1)
       ELSE PatternLoop(tab, patterns, allTabs, k + 1)

\* The switch on settings.defaultBehavior of shouldCloseTab.
DefaultSwitch(tab, settings, allTabs) ==
  IF settings.defaultBehavior \in DuplicateModes
  THEN Bool2Str(OlderThanAll(tab, DuplicatesUnder(settings.defaultBehavior, tab, allTabs)))
  ELSE "false"

shouldCloseTab(tab, settings, allTabs) ==
  IF StartsWithAbout(tab.url) THEN "false"
  ELSE LET r == PatternLoop(tab, settings.patterns, allTabs, 1)
       IN IF r = "nomatch" THEN DefaultSwitch(tab, settings, allTabs) ELSE r


\* ------------------------------------------------------------------ state
Procs == {"L1", "L2", "U", "U2", "M", "R"}
\* The two alarms.onAlarm listeners that call checkInactiveTabs.
InactiveProcs == {"L1", "L2"}

VARIABLES
  clock,          \* Date.now()
  tabs,           \* the browser's tabs: id -> status, url, pinned, active, discarded, lastAccessed
  store,          \* storage.sync: key -> <<>> (absent) or <<value>>
  closedTabs,     \* storage.local closedTabs
  notifications,  \* titles of the notifications raised so far
  tabActivity,    \* the Map tabActivity
  unloadedTabs,   \* the Map unloadedTabs
  lastUnloadTime, \* let lastUnloadTime = 0
  proc,           \* the handler invocations in flight, one record each
  bootPend,       \* initializeTabActivity() calls whose tabs.query has not resolved
  bootTabs,       \* ids of the tabs open when the script was loaded
  focusPend,      \* windows.onFocusChanged: <<>> or <<result of its tabs.query>>
  restampPend,    \* setInterval callback: <<>> or <<result of its tabs.query>>
  closeCtx,       \* history variable: who removed a tab, and on what data
  discardedBy,    \* history variable: the tabs.discard calls of the sweeps, and when
  fired           \* the minute each periodic trigger last fired in; the events so far

vars == <<clock, tabs, store, closedTabs, notifications, tabActivity, unloadedTabs,
          lastUnloadTime, proc, bootPend, bootTabs, focusPend, restampPend,
          closeCtx, discardedBy, fired>>

\* storage.sync.get({key: default})
\* The stored value ignored: the reader always takes the default.
StoreGetDefault(key, default) == default

StoreGet(key, default) == IF store[key] = <<>> THEN default ELSE store[key][1]

MapSet(m, k, v) == [x \in (DOMAIN m) \cup {k} |-> IF x = k THEN v ELSE m[x]]
MapDelete(m, k) == [x \in (DOMAIN m) \ {k} |-> m[x]]

\* tabs.query({}): the open tabs, in id order.
RECURSIVE QueryFrom(_)
QueryFrom(k) ==
  IF k > MaxTabs THEN <<>>
  ELSE IF tabs[k].status = "open"
       THEN <<[id |-> k, url |-> tabs[k].url, pinned |-> tabs[k].pinned,
               active |-> tabs[k].active, discarded |-> tabs[k].discarded,
               lastAccessed |-> tabs[k].lastAccessed]>> \o QueryFrom(k + 1)
       ELSE QueryFrom(k + 1)

QueryAll == QueryFrom(1)

\* tabs.query({active: true}) and tabs.query({active: true, windowId}): one window.
ActiveIds == {t \in TabIds : tabs[t].status = "open" /\ tabs[t].active}

NoSettings == [enabled |-> FALSE, timeLimit |-> 0, unloadTimeout |-> 0,
               defaultBehavior |-> "", showNotifications |-> FALSE, patterns |-> <<>>]
NoEval == [v |-> "none", lastAccess |-> 0]
NoEvals == [t \in TabIds |-> NoEval]
NoCtx == [by |-> "none", now |-> 0, lastAccess |-> 0, settings |-> NoSettings, snapshot |-> <<>>]

IdleProc == [pc |-> "idle", settings |-> NoSettings, tabs |-> <<>>, now |-> 0, i |-> 0,
             lastAccess |-> 0, hist |-> <<>>, hType |-> "", show |-> FALSE, ret |-> "",
             evals |-> NoEvals]

\* A finished invocation keeps only what it decided about each tab.
Done(evals) == [IdleProc EXCEPT !.pc = "done", !.evals = evals]

Resting(p) == proc[p].pc \in {"idle", "done"}

\* A variant that stamps only an id without an entry.
updateTabActivityOnce(m, tabId) == IF tabId \in DOMAIN m THEN m ELSE MapSet(m, tabId, clock)

\* updateTabActivity
updateTabActivity(m, tabId) == MapSet(m, tabId, clock)

\* A variant that answers 0, the epoch, for an id without an entry.
getTabLastAccessEpoch(tabId) ==
  IF tabId \in DOMAIN tabActivity THEN tabActivity[tabId] ELSE 0

\* getTabLastAccess: tabActivity.get(tabId) || Date.now()
getTabLastAccess(tabId) ==
  IF tabId \in DOMAIN tabActivity /\ tabActivity[tabId] # 0 THEN tabActivity[tabId] ELSE clock


\* ------------------------------------------------- addToHistory (any caller)
\* A variant without the shift.
PushCappedNoShift(list, entry) == Append(list, entry)

\* closedTabs.push({url, timestamp, type}); if (closedTabs.length > 100) shift()
PushCapped(list, entry) ==
  LET pushed == Append(list, entry)
  IN IF Len(pushed) > HistoryCap THEN Tail(pushed) ELSE pushed

CurTab(p) == proc[p].tabs[proc[p].i]

\* await browser.storage.local.get({ closedTabs: [] }) resolves.
HistGet(p) ==
  /\ proc[p].pc = "hist_get"
  /\ proc' = [proc EXCEPT ![p].pc = "hist_sync", ![p].hist = closedTabs]
  /\ UNCHANGED <<fired, clock, tabs, store, closedTabs, notifications, tabActivity, unloadedTabs,
                 lastUnloadTime, bootPend, bootTabs, focusPend, restampPend, closeCtx,
                 discardedBy>>

\* await browser.storage.sync.get({ showNotifications: true }) resolves; the
\* entry is pushed on the copy read before and storage.local.set is called.
HistSync(p) ==
  /\ proc[p].pc = "hist_sync"
  /\ proc' = [proc EXCEPT
       ![p].pc = "hist_set",
       ![p].show = StoreGet("showNotifications", TRUE),
       ![p].hist = PushCapped(proc[p].hist,
                      [url |-> CurTab(p).url, timestamp |-> clock, type |-> proc[p].hType])]
  /\ UNCHANGED <<fired, clock, tabs, store, closedTabs, notifications, tabActivity, unloadedTabs,
                 lastUnloadTime, bootPend, bootTabs, focusPend, restampPend, closeCtx,
                 discardedBy>>

\* await browser.storage.local.set({ closedTabs }) resolves: the copy is stored.
HistSet(p) ==
  /\ proc[p].pc = "hist_set"
  /\ closedTabs' = proc[p].hist
  /\ proc' = [proc EXCEPT
       ![p].pc = IF proc[p].show THEN "hist_notify" ELSE proc[p].ret,
       ![p].hist = <<>>]
  /\ UNCHANGED <<fired, clock, tabs, store, notifications, tabActivity, unloadedTabs,
                 lastUnloadTime, bootPend, bootTabs, focusPend, restampPend, closeCtx,
                 discardedBy>>

\* await browser.notifications.create(...) of addToHistory resolves.
HistNotify(p) ==
  /\ proc[p].pc = "hist_notify"
  /\ notifications' = Append(notifications,
       IF proc[p].hType = "unloaded" THEN "Tab Unloaded" ELSE "Tab Closed")
  /\ proc' = [proc EXCEPT ![p].pc = proc[p].ret]
  /\ UNCHANGED <<fired, clock, tabs, store, closedTabs, tabActivity, unloadedTabs,
                 lastUnloadTime, bootPend, bootTabs, focusPend, restampPend, closeCtx,
                 discardedBy>>

\* await browser.storage.local.get rejects: control passes to the catch of
\* addToHistory.
HistGetFails(p) ==
  /\ proc[p].pc = "hist_get"
  /\ proc' = [proc EXCEPT ![p].pc = "hist_failed"]
  /\ UNCHANGED <<fired, clock, tabs, store, closedTabs, notifications, tabActivity, unloadedTabs,
                 lastUnloadTime, bootPend, bootTabs, focusPend, restampPend, closeCtx,
                 discardedBy>>

\* await browser.storage.local.set rejects: nothing is stored, control passes
\* to the catch of addToHistory.
HistSetFails(p) ==
  /\ proc[p].pc = "hist_set"
  /\ proc' = [proc EXCEPT ![p].pc = "hist_failed", ![p].hist = <<>>]
  /\ UNCHANGED <<fired, clock, tabs, store, closedTabs, notifications, tabActivity, unloadedTabs,
                 lastUnloadTime, bootPend, bootTabs, focusPend, restampPend, closeCtx,
                 discardedBy>>

\* catch (e) { console.error(...) } of addToHistory: the function returns
\* normally to its caller.
HistCaught(p) ==
  /\ proc[p].pc = "hist_failed"
  /\ proc' = [proc EXCEPT ![p].pc = proc[p].ret]
  /\ UNCHANGED <<fired, clock, tabs, store, closedTabs, notifications, tabActivity, unloadedTabs,
                 lastUnloadTime, bootPend, bootTabs, focusPend, restampPend, closeCtx,
                 discardedBy>>

\* ------------------------------------------------------ checkInactiveTabs
\* A variant that lets pinned tabs through.
SkipPinnedNever(tab) == FALSE

\* if (tab.pinned) continue
SkipPinned(tab) == tab.pinned

\* A variant that also skips at timeLeft = 0 is not the code; one that skips
\* less is: timeLeft > 1 lets a tab one unit short of the limit through.
StillWithinLimitLate(timeLeft) == timeLeft > 1

\* if (timeLeft > 0) continue
StillWithinLimit(timeLeft) == timeLeft > 0

\* const isDuplicateMode = settings.defaultBehavior.startsWith('duplicate')
IsDuplicateMode(settings) == settings.defaultBehavior \in DuplicateModes

\* const shouldClose = isDuplicateMode ? hasDuplicate : true
ShouldClose(isDuplicateMode, hasDuplicate) ==
  IF isDuplicateMode THEN hasDuplicate = "true" ELSE TRUE

\* One iteration of the for loop, up to the close decision.
EvalTab(tab, settings, allTabs, now, lastAccess) ==
  LET inactiveTime == settings.timeLimit * MinuteMs
      timeLeft == inactiveTime - (now - lastAccess)
  IN IF SkipPinned(tab) THEN "pinned"
     ELSE IF StillWithinLimit(timeLeft) THEN "fresh"
     ELSE LET hasDuplicate == shouldCloseTab(tab, settings, allTabs)
          IN IF hasDuplicate = "throw" THEN "throw"
             ELSE IF ShouldClose(IsDuplicateMode(settings), hasDuplicate)
                  THEN "close" ELSE "skip"

\* The iterations from index k that run without a suspension on a browser
\* call: they end at the first close decision, at an exception or at the end
\* of the snapshot.
RECURSIVE ScanInactive(_, _, _)
ScanInactive(p, k, evals) ==
  IF k > Len(proc[p].tabs) THEN [out |-> "end", i |-> k, evals |-> evals]
  ELSE LET tab == proc[p].tabs[k]
           lastAccess == getTabLastAccess(tab.id)
           v == EvalTab(tab, proc[p].settings, proc[p].tabs, proc[p].now, lastAccess)
           ev == [evals EXCEPT ![tab.id] = [v |-> v, lastAccess |-> lastAccess]]
       IN IF v \in {"close", "throw"} THEN [out |-> v, i |-> k, evals |-> ev]
          ELSE ScanInactive(p, k + 1, ev)

\* The alarm checkInactiveTabs fires: each of the two listeners calls
\* checkInactiveTabs(), which runs up to its first storage.sync.get.
AlarmInactive ==
  /\ fired.inactive < clock
  /\ \A p \in InactiveProcs : Resting(p)
  /\ proc' = [p \in Procs |->
                IF p \in InactiveProcs THEN [IdleProc EXCEPT !.pc = "load"] ELSE proc[p]]
  /\ fired' = [fired EXCEPT !.inactive = clock]
  /\ UNCHANGED <<clock, tabs, store, closedTabs, notifications, tabActivity, unloadedTabs,
                 lastUnloadTime, bootPend, bootTabs, focusPend, restampPend, closeCtx,
                 discardedBy>>

\* storage.sync.get({enabled, timeLimit, defaultBehavior, showNotifications,
\* patterns}) resolves; return if disabled, else ask for the whitelist.
SweepLoad(p) ==
  /\ p \in InactiveProcs
  /\ proc[p].pc = "load"
  /\ LET settings == [enabled |-> StoreGet("enabled", TRUE),
                      timeLimit |-> StoreGet("timeLimit", 2),
                      unloadTimeout |-> 0,
                      defaultBehavior |-> StoreGet("defaultBehavior", "duplicate-no-query"),
                      showNotifications |-> StoreGet("showNotifications", TRUE),
                      patterns |-> StoreGet("patterns", PresetPatterns)]
     IN proc' = [proc EXCEPT ![p] =
                   IF settings.enabled
                   THEN [proc[p] EXCEPT !.pc = "whitelist", !.settings = settings]
                   ELSE Done(NoEvals)]
  /\ UNCHANGED <<fired, clock, tabs, store, closedTabs, notifications, tabActivity, unloadedTabs,
                 lastUnloadTime, bootPend, bootTabs, focusPend, restampPend, closeCtx,
                 discardedBy>>

\* whitelist.map(pattern => ({ pattern, action: 'keep' }))
TransformWhitelist(whitelist) ==
  [k \in 1..Len(whitelist) |-> [pattern |-> whitelist[k], action |-> "keep"]]

\* storage.sync.get({ whitelist: [] }) resolves; the whitelist goes first.
SweepWhitelist(p) ==
  /\ p \in InactiveProcs
  /\ proc[p].pc = "whitelist"
  /\ proc' = [proc EXCEPT
       ![p].pc = "query",
       ![p].settings.patterns =
          TransformWhitelist(StoreGet("whitelist", <<>>)) \o proc[p].settings.patterns]
  /\ UNCHANGED <<fired, clock, tabs, store, closedTabs, notifications, tabActivity, unloadedTabs,
                 lastUnloadTime, bootPend, bootTabs, focusPend, restampPend, closeCtx,
                 discardedBy>>

\* tabs.query({}) resolves: the snapshot and now are taken, the loop starts.
SweepQuery(p) ==
  /\ p \in InactiveProcs
  /\ proc[p].pc = "query"
  /\ proc' = [proc EXCEPT ![p].pc = "loop", ![p].tabs = QueryAll, ![p].now = clock,
                          ![p].i = 1]
  /\ UNCHANGED <<fired, clock, tabs, store, closedTabs, notifications, tabActivity, unloadedTabs,
                 lastUnloadTime, bootPend, bootTabs, focusPend, restampPend, closeCtx,
                 discardedBy>>

\* The loop runs to its next close decision; an exception of shouldCloseTab
\* ends the sweep in the outer catch.
SweepLoop(p) ==
  /\ p \in InactiveProcs
  /\ proc[p].pc = "loop"
  /\ LET r == ScanInactive(p, proc[p].i, proc[p].evals)
     IN proc' = [proc EXCEPT ![p] =
          IF r.out = "close"
          THEN [proc[p] EXCEPT
                  !.pc = IF proc[p].settings.showNotifications THEN "notify" ELSE "hist_get",
                  !.i = r.i, !.evals = r.evals,
                  !.lastAccess = r.evals[proc[p].tabs[r.i].id].lastAccess,
                  !.hType = "closed", !.ret = "remove"]
          ELSE Done(r.evals)]
  /\ UNCHANGED <<fired, clock, tabs, store, closedTabs, notifications, tabActivity, unloadedTabs,
                 lastUnloadTime, bootPend, bootTabs, focusPend, restampPend, closeCtx,
                 discardedBy>>

\* notifications.create('Inactive Tab Closed') resolves; addToHistory(tab.url).
SweepNotify(p) ==
  /\ p \in InactiveProcs
  /\ proc[p].pc = "notify"
  /\ notifications' = Append(notifications, "Inactive Tab Closed")
  /\ proc' = [proc EXCEPT ![p].pc = "hist_get"]
  /\ UNCHANGED <<fired, clock, tabs, store, closedTabs, tabActivity, unloadedTabs,
                 lastUnloadTime, bootPend, bootTabs, focusPend, restampPend, closeCtx,
                 discardedBy>>

\* browser.tabs.remove(tab.id): the tab is removed and tabs.onRemoved runs
\* tabActivity.delete; for a tab that is gone the call rejects and the outer
\* catch ends the sweep.
SweepRemove(p) ==
  /\ p \in InactiveProcs
  /\ proc[p].pc = "remove"
  /\ LET id == CurTab(p).id
     IN IF tabs[id].status = "open"
        THEN /\ tabs' = [tabs EXCEPT ![id].status = "closed", ![id].active = FALSE]
             /\ tabActivity' = MapDelete(tabActivity, id)
             /\ closeCtx' = [closeCtx EXCEPT ![id] =
                  [by |-> p, now |-> proc[p].now, lastAccess |-> proc[p].lastAccess,
                   settings |-> proc[p].settings, snapshot |-> proc[p].tabs]]
             /\ proc' = [proc EXCEPT ![p].pc = "forget"]
        ELSE /\ proc' = [proc EXCEPT ![p] = Done(proc[p].evals)]
             /\ UNCHANGED <<tabs, tabActivity, closeCtx>>
  /\ UNCHANGED <<fired, clock, store, closedTabs, notifications, unloadedTabs,
                 lastUnloadTime, bootPend, bootTabs, focusPend, restampPend, discardedBy>>

\* tabs.remove resolved: tabActivity.delete(tab.id), next iteration.
SweepForget(p) ==
  /\ p \in InactiveProcs
  /\ proc[p].pc = "forget"
  /\ tabActivity' = MapDelete(tabActivity, CurTab(p).id)
  /\ proc' = [proc EXCEPT ![p].pc = "loop", ![p].i = proc[p].i + 1]
  /\ UNCHANGED <<fired, clock, tabs, store, closedTabs, notifications, unloadedTabs,
                 lastUnloadTime, bootPend, bootTabs, focusPend, restampPend, closeCtx,
                 discardedBy>>


\* ------------------------------- checkUnloadTabs, manuallyUnloadInactiveTabs
UnloadProcs == {"U", "M"}
\* The invocations of checkUnloadTabs: the one a tick starts and the one a
\* later tick starts while the first is still suspended.
ScheduledProcs == {"U", "U2"}

\* The skip test without its active and discarded operands.
UnloadSkipsPinnedOnly(tab) == tab.pinned

\* if (tab.pinned || tab.active || tab.discarded) continue
UnloadSkips(tab) == tab.pinned \/ tab.active \/ tab.discarded

\* The test with > in place of >=.
ManualIdleStrict(now, lastAccess, settings) == now - lastAccess > settings.timeLimit * MinuteMs

\* if (timeSinceLastAccess >= inactiveTime)
ManualIdle(now, lastAccess, settings) == now - lastAccess >= settings.timeLimit * MinuteMs

\* Does the loop of p call tabs.discard for this tab of its snapshot?
Discards(p, tab, now, settings) ==
  /\ ~UnloadSkips(tab)
  /\ p = "M" => ManualIdle(now, getTabLastAccess(tab.id), settings)

\* The first index from k on whose tab the loop discards, or Len + 1.
RECURSIVE NextDiscard(_, _, _, _, _)
NextDiscard(p, snapshot, now, settings, k) ==
  IF k > Len(snapshot) THEN k
  ELSE IF Discards(p, snapshot[k], now, settings) THEN k
  ELSE NextDiscard(p, snapshot, now, settings, k + 1)

\* The loop without the stamp at its end: lastUnloadTime stays as it was.
LoopOnNoStamp(p, snapshot, now, settings, k) ==
  LET j == NextDiscard(p, snapshot, now, settings, k)
  IN /\ proc' = [proc EXCEPT ![p] =
          IF j > Len(snapshot) THEN Done(NoEvals)
          ELSE [proc[p] EXCEPT !.pc = "discard", !.tabs = snapshot, !.now = now,
                               !.settings = settings, !.i = j]]
     /\ UNCHANGED lastUnloadTime

\* The loop of p runs from index k to its next tabs.discard call or to its
\* end; checkUnloadTabs then sets lastUnloadTime = now.
LoopOn(p, snapshot, now, settings, k) ==
  LET j == NextDiscard(p, snapshot, now, settings, k)
  IN /\ proc' = [proc EXCEPT ![p] =
          IF j > Len(snapshot) THEN Done(NoEvals)
          ELSE [proc[p] EXCEPT !.pc = "discard", !.tabs = snapshot, !.now = now,
                               !.settings = settings, !.i = j]]
     /\ lastUnloadTime' = IF p \in ScheduledProcs /\ j > Len(snapshot) THEN now
                          ELSE lastUnloadTime

\* The alarm checkUnloadTabs fires: the first listener calls
\* checkAndKillUnloadedTabs(), the third calls checkUnloadTabs().
AlarmUnload ==
  /\ fired.unload < clock
  /\ Resting("U") /\ Resting("R")
  /\ proc' = [proc EXCEPT !["U"] = [IdleProc EXCEPT !.pc = "load"],
                          !["R"] = [IdleProc EXCEPT !.pc = "load"]]
  /\ fired' = [fired EXCEPT !.unload = clock]
  /\ UNCHANGED <<clock, tabs, store, closedTabs, notifications, tabActivity, unloadedTabs,
                 lastUnloadTime, bootPend, bootTabs, focusPend, restampPend, closeCtx,
                 discardedBy>>

\* The alarm checkUnloadTabs fires while the checkUnloadTabs() call of an
\* earlier tick is still suspended on a browser call: the listener calls
\* checkUnloadTabs() again (the reaper, long finished, as well).
AlarmUnloadOverlap ==
  /\ fired.unload < clock
  /\ ~Resting("U") /\ Resting("U2") /\ Resting("R")
  /\ proc' = [proc EXCEPT !["U2"] = [IdleProc EXCEPT !.pc = "load"],
                          !["R"] = [IdleProc EXCEPT !.pc = "load"]]
  /\ fired' = [fired EXCEPT !.unload = clock]
  /\ UNCHANGED <<clock, tabs, store, closedTabs, notifications, tabActivity, unloadedTabs,
                 lastUnloadTime, bootPend, bootTabs, focusPend, restampPend, closeCtx,
                 discardedBy>>

\* The alarm checkUnloadedTabs (period 30) fires: no listener tests for its name.
AlarmUnloaded ==
  /\ UNCHANGED vars

\* if (now - lastUnloadTime < unloadInterval) return
\* The gate left open: the interval always counts as passed.
IntervalAlwaysPassed(now, last, unloadInterval) == FALSE

IntervalNotPassed(now, last, unloadInterval) == now - last < unloadInterval

\* checkUnloadTabs: storage.sync.get({unloadTimeout, enabled}) resolves; the
\* enabled test, the first-run stamp of lastUnloadTime and the interval gate.
UnloadLoad(p) ==
  /\ p \in ScheduledProcs
  /\ proc[p].pc = "load"
  /\ LET enabled == StoreGet("enabled", TRUE)
         timeout == StoreGet("unloadTimeout", 30)
         now == clock
         last == IF lastUnloadTime = 0 THEN now ELSE lastUnloadTime
         unloadInterval == (IF timeout = 0 THEN 30 ELSE timeout) * MinuteMs
     IN IF ~enabled
        THEN /\ proc' = [proc EXCEPT ![p] = Done(NoEvals)]
             /\ UNCHANGED lastUnloadTime
        ELSE /\ lastUnloadTime' = last
             /\ proc' = [proc EXCEPT ![p] =
                  IF IntervalNotPassed(now, last, unloadInterval) THEN Done(NoEvals)
                  ELSE [proc[p] EXCEPT !.pc = "query", !.now = now,
                          !.settings = [NoSettings EXCEPT !.enabled = enabled,
                                                          !.unloadTimeout = timeout]]]
  /\ UNCHANGED <<fired, clock, tabs, store, closedTabs, notifications, tabActivity, unloadedTabs,
                 bootPend, bootTabs, focusPend, restampPend, closeCtx, discardedBy>>

\* checkUnloadTabs: tabs.query({}) resolves and the loop starts.
UnloadQuery(p) ==
  /\ p \in ScheduledProcs
  /\ proc[p].pc = "query"
  /\ LoopOn(p, QueryAll, proc[p].now, proc[p].settings, 1)
  /\ UNCHANGED <<fired, clock, tabs, store, closedTabs, notifications, tabActivity, unloadedTabs,
                 bootPend, bootTabs, focusPend, restampPend, closeCtx, discardedBy>>

\* runtime.onMessage with action 'unloadInactiveTabs' from the popup.
MessageUnload ==
  /\ fired.message < clock
  /\ Resting("M")
  /\ proc' = [proc EXCEPT !["M"] = [IdleProc EXCEPT !.pc = "load"]]
  /\ fired' = [fired EXCEPT !.message = clock]
  /\ UNCHANGED <<clock, tabs, store, closedTabs, notifications, tabActivity, unloadedTabs,
                 lastUnloadTime, bootPend, bootTabs, focusPend, restampPend, closeCtx,
                 discardedBy>>

\* manuallyUnloadInactiveTabs: storage.sync.get({timeLimit, enabled}) resolves.
ManualLoad ==
  /\ proc["M"].pc = "load"
  /\ LET enabled == StoreGet("enabled", TRUE)
     IN proc' = [proc EXCEPT !["M"] =
          IF ~enabled THEN Done(NoEvals)
          ELSE [proc["M"] EXCEPT !.pc = "query",
                  !.settings = [NoSettings EXCEPT !.enabled = enabled,
                                                  !.timeLimit = StoreGet("timeLimit", 2)]]]
  /\ UNCHANGED <<fired, clock, tabs, store, closedTabs, notifications, tabActivity, unloadedTabs,
                 lastUnloadTime, bootPend, bootTabs, focusPend, restampPend, closeCtx,
                 discardedBy>>

\* manuallyUnloadInactiveTabs: tabs.query({}) resolves, now is taken, the loop starts.
ManualQuery ==
  /\ proc["M"].pc = "query"
  /\ LoopOn("M", QueryAll, clock, proc["M"].settings, 1)
  /\ UNCHANGED <<fired, clock, tabs, store, closedTabs, notifications, tabActivity, unloadedTabs,
                 bootPend, bootTabs, focusPend, restampPend, closeCtx, discardedBy>>

\* A variant without the per-tab try/catch: a rejected tabs.discard ends the
\* sweep.
DiscardAborts(p) ==
  /\ p \in UnloadProcs \cup ScheduledProcs
  /\ proc[p].pc = "discard"
  /\ LET id == CurTab(p).id
     IN IF tabs[id].status # "open"
        THEN /\ proc' = [proc EXCEPT ![p] = Done(NoEvals)]
             /\ discardedBy' = discardedBy \cup {[by |-> p, tab |-> CurTab(p), ok |-> FALSE, at |-> clock]}
             /\ UNCHANGED <<tabs, lastUnloadTime>>
        ELSE /\ tabs' = [tabs EXCEPT ![id].discarded = tabs[id].discarded \/ ~tabs[id].active]
             /\ discardedBy' = discardedBy \cup {[by |-> p, tab |-> CurTab(p), ok |-> TRUE, at |-> clock]}
             /\ proc' = [proc EXCEPT ![p].pc = "hist_get", ![p].hType = "unloaded",
                                     ![p].ret = "next"]
             /\ UNCHANGED lastUnloadTime
  /\ UNCHANGED <<fired, clock, store, closedTabs, notifications, tabActivity, unloadedTabs,
                 bootPend, bootTabs, focusPend, restampPend, closeCtx>>

\* browser.tabs.discard(tab.id) settles.  It rejects for a tab that is gone
\* (the per-tab catch, then the next iteration); it resolves without effect
\* for a tab that has become active or is discarded already; then
\* addToHistory(tab.url, 'unloaded').
Discard(p) ==
  /\ p \in UnloadProcs \cup ScheduledProcs
  /\ proc[p].pc = "discard"
  /\ LET id == CurTab(p).id
     IN IF tabs[id].status # "open"
        THEN /\ LoopOn(p, proc[p].tabs, proc[p].now, proc[p].settings, proc[p].i + 1)
             /\ discardedBy' = discardedBy \cup {[by |-> p, tab |-> CurTab(p), ok |-> FALSE, at |-> clock]}
             /\ UNCHANGED tabs
        ELSE /\ tabs' = [tabs EXCEPT ![id].discarded = tabs[id].discarded \/ ~tabs[id].active]
             /\ discardedBy' = discardedBy \cup {[by |-> p, tab |-> CurTab(p), ok |-> TRUE, at |-> clock]}
             /\ proc' = [proc EXCEPT ![p].pc = "hist_get", ![p].hType = "unloaded",
                                     ![p].ret = "next"]
             /\ UNCHANGED lastUnloadTime
  /\ UNCHANGED <<fired, clock, store, closedTabs, notifications, tabActivity, unloadedTabs,
                 bootPend, bootTabs, focusPend, restampPend, closeCtx>>

\* A variant that does not move on: the loop resumes at the tab it has
\* just discarded.
AfterDiscardNoAdvance(p) ==
  /\ p \in UnloadProcs \cup ScheduledProcs
  /\ proc[p].pc = "next"
  /\ LoopOn(p, proc[p].tabs, proc[p].now, proc[p].settings, proc[p].i)
  /\ UNCHANGED <<fired, clock, tabs, store, closedTabs, notifications, tabActivity, unloadedTabs,
                 bootPend, bootTabs, focusPend, restampPend, closeCtx, discardedBy>>

\* addToHistory returned: the next iteration.
AfterDiscard(p) ==
  /\ p \in UnloadProcs \cup ScheduledProcs
  /\ proc[p].pc = "next"
  /\ LoopOn(p, proc[p].tabs, proc[p].now, proc[p].settings, proc[p].i + 1)
  /\ UNCHANGED <<fired, clock, tabs, store, closedTabs, notifications, tabActivity, unloadedTabs,
                 bootPend, bootTabs, focusPend, restampPend, closeCtx, discardedBy>>


\* ------------------------------------------------ checkAndKillUnloadedTabs
\* The script never calls unloadedTabs.set, so the for loop over
\* unloadedTabs.entries() has no entry to suspend on; the whole loop is one
\* step.  st carries the state the loop body changes.
RECURSIVE ReapFrom(_, _, _, _)
ReapFrom(k, now, show, st) ==
  IF k > MaxTabs THEN st
  ELSE IF k \notin DOMAIN st.unloadedTabs \/ now - st.unloadedTabs[k] < KILL_AFTER_MS
       THEN ReapFrom(k + 1, now, show, st)
       ELSE LET kill == /\ st.tabs[k].status = "open"
                        /\ ~st.tabs[k].active
                        /\ ~st.tabs[k].discarded
                killed == [st EXCEPT
                  !.tabs[k].status = "closed",
                  !.tabActivity = MapDelete(@, k),
                  !.closedTabs = PushCapped(@, [url |-> st.tabs[k].url, timestamp |-> clock,
                                                type |-> "killed"]),
                  !.notifications = IF show THEN Append(@, "Tab Closed") ELSE @,
                  !.closeCtx[k] = [NoCtx EXCEPT !.by = "R", !.now = now]]
                st1 == IF kill THEN killed ELSE st
            IN ReapFrom(k + 1, now, show, [st1 EXCEPT !.unloadedTabs = MapDelete(@, k)])

\* storage.sync.get({ autoKillUnloaded: false }); if (!settings.autoKillUnloaded) return
ReaperActive == StoreGet("autoKillUnloaded", FALSE)

\* The reaper without its autoKillUnloaded test, over a tracker that holds
\* every tab since time 0.
ReaperRunAllTracked ==
  /\ proc["R"].pc = "load"
  /\ LET st == [tabs |-> tabs, tabActivity |-> tabActivity, closedTabs |-> closedTabs,
                notifications |-> notifications, closeCtx |-> closeCtx,
                unloadedTabs |-> [t \in TabIds |-> 0]]
         out == ReapFrom(1, clock, StoreGet("showNotifications", TRUE), st)
     IN /\ tabs' = out.tabs
        /\ tabActivity' = out.tabActivity
        /\ closedTabs' = out.closedTabs
        /\ notifications' = out.notifications
        /\ closeCtx' = out.closeCtx
        /\ unloadedTabs' = unloadedTabs
  /\ proc' = [proc EXCEPT !["R"] = Done(NoEvals)]
  /\ UNCHANGED <<fired, clock, store, lastUnloadTime, bootPend, bootTabs, focusPend, restampPend,
                 discardedBy>>

\* storage.sync.get({ autoKillUnloaded: false }) resolves.
ReaperRun ==
  /\ proc["R"].pc = "load"
  /\ LET st == [tabs |-> tabs, tabActivity |-> tabActivity, closedTabs |-> closedTabs,
                notifications |-> notifications, closeCtx |-> closeCtx,
                unloadedTabs |-> unloadedTabs]
         out == IF ReaperActive
                THEN ReapFrom(1, clock, StoreGet("showNotifications", TRUE), st)
                ELSE st
     IN /\ tabs' = out.tabs
        /\ tabActivity' = out.tabActivity
        /\ closedTabs' = out.closedTabs
        /\ notifications' = out.notifications
        /\ closeCtx' = out.closeCtx
        /\ unloadedTabs' = out.unloadedTabs
  /\ proc' = [proc EXCEPT !["R"] = Done(NoEvals)]
  /\ UNCHANGED <<fired, clock, store, lastUnloadTime, bootPend, bootTabs, focusPend, restampPend,
                 discardedBy>>

\* ------------------------------------------------- browser events, timers
\* A minute passes, up to minute max, while no sweep is in flight (a sweep
\* takes milliseconds).
Tick(max) ==
  /\ clock < max
  /\ \A p \in Procs : Resting(p)
  /\ clock' = clock + 1
  /\ UNCHANGED <<fired, tabs, store, closedTabs, notifications, tabActivity, unloadedTabs,
                 lastUnloadTime, proc, bootPend, bootTabs, focusPend, restampPend,
                 closeCtx, discardedBy>>

\* A minute passes while checkUnloadTabs() is suspended on tabs.discard or
\* inside addToHistory (a browser call that is slow to settle).
SlowTick(max) ==
  /\ clock < max
  /\ proc["U"].pc \in {"discard", "hist_get", "hist_sync", "hist_set", "hist_notify", "next"}
  /\ \A p \in Procs \ {"U"} : Resting(p)
  /\ clock' = clock + 1
  /\ UNCHANGED <<fired, tabs, store, closedTabs, notifications, tabActivity, unloadedTabs,
                 lastUnloadTime, proc, bootPend, bootTabs, focusPend, restampPend,
                 closeCtx, discardedBy>>

\* The machine sleeps for 24 hours: Date.now() moves on, no alarm fires and
\* no handler runs meanwhile.  Once, within the first MaxClock minutes.
DayPasses ==
  /\ clock <= MaxClock
  /\ \A p \in Procs : Resting(p)
  /\ clock' = clock + KILL_AFTER_MS
  /\ UNCHANGED <<fired, tabs, store, closedTabs, notifications, tabActivity, unloadedTabs,
                 lastUnloadTime, proc, bootPend, bootTabs, focusPend, restampPend,
                 closeCtx, discardedBy>>

\* tabs.onCreated: updateTabActivity(tab.id).
TabCreated(t) ==
  /\ fired.events < MaxEvents
  /\ fired' = [fired EXCEPT !.events = @ + 1]
  /\ tabs[t].status = "unborn"
  /\ tabs' = [tabs EXCEPT ![t].status = "open", ![t].lastAccessed = clock]
  /\ tabActivity' = updateTabActivity(tabActivity, t)
  /\ UNCHANGED <<clock, store, closedTabs, notifications, unloadedTabs, lastUnloadTime,
                 proc, bootPend, bootTabs, focusPend, restampPend, closeCtx, discardedBy>>

\* tabs.onActivated, both listeners: unloadedTabs.delete and updateTabActivity.
\* The browser reloads a discarded tab that is activated.
TabActivated(t) ==
  /\ fired.events < MaxEvents
  /\ fired' = [fired EXCEPT !.events = @ + 1]
  /\ tabs[t].status = "open"
  /\ ~tabs[t].active
  /\ tabs' = [u \in TabIds |->
                IF u = t THEN [tabs[u] EXCEPT !.active = TRUE, !.discarded = FALSE,
                                              !.lastAccessed = clock]
                ELSE [tabs[u] EXCEPT !.active = FALSE]]
  /\ unloadedTabs' = MapDelete(unloadedTabs, t)
  /\ tabActivity' = updateTabActivity(tabActivity, t)
  /\ UNCHANGED <<clock, store, closedTabs, notifications, lastUnloadTime,
                 proc, bootPend, bootTabs, focusPend, restampPend, closeCtx, discardedBy>>

\* tabs.onUpdated, both listeners, for changeInfo.status === 'complete'.
TabCompleted(t) ==
  /\ fired.events < MaxEvents
  /\ fired' = [fired EXCEPT !.events = @ + 1]
  /\ tabs[t].status = "open"
  /\ unloadedTabs' = IF tabs[t].active THEN MapDelete(unloadedTabs, t) ELSE unloadedTabs
  /\ tabActivity' = updateTabActivity(tabActivity, t)
  /\ UNCHANGED <<clock, tabs, store, closedTabs, notifications, lastUnloadTime,
                 proc, bootPend, bootTabs, focusPend, restampPend, closeCtx, discardedBy>>

\* tabs.onUpdated, both listeners, for changeInfo.url: the tab has a new URL.
TabNavigated(t, url) ==
  /\ fired.events < MaxEvents
  /\ fired' = [fired EXCEPT !.events = @ + 1]
  /\ tabs[t].status = "open"
  /\ url # tabs[t].url
  /\ tabs' = [tabs EXCEPT ![t].url = url]
  /\ tabActivity' = updateTabActivity(tabActivity, t)
  /\ UNCHANGED <<clock, store, closedTabs, notifications, unloadedTabs, lastUnloadTime,
                 proc, bootPend, bootTabs, focusPend, restampPend, closeCtx, discardedBy>>

\* The user closes a tab; tabs.onRemoved: tabActivity.delete(tabId).
TabRemoved(t) ==
  /\ fired.events < MaxEvents
  /\ fired' = [fired EXCEPT !.events = @ + 1]
  /\ tabs[t].status = "open"
  /\ tabs' = [tabs EXCEPT ![t].status = "closed", ![t].active = FALSE]
  /\ tabActivity' = MapDelete(tabActivity, t)
  /\ closeCtx' = [closeCtx EXCEPT ![t] = [NoCtx EXCEPT !.by = "user", !.now = clock]]
  /\ UNCHANGED <<clock, store, closedTabs, notifications, unloadedTabs, lastUnloadTime,
                 proc, bootPend, bootTabs, focusPend, restampPend, discardedBy>>

\* windows.onFocusChanged with a real window id: tabs.query({active, windowId}) is called.
FocusChanged ==
  /\ fired.events < MaxEvents
  /\ fired' = [fired EXCEPT !.events = @ + 1]
  /\ focusPend = <<>>
  /\ focusPend' = <<ActiveIds>>
  /\ UNCHANGED <<clock, tabs, store, closedTabs, notifications, tabActivity, unloadedTabs,
                 lastUnloadTime, proc, bootPend, bootTabs, restampPend, closeCtx,
                 discardedBy>>

\* windows.onFocusChanged with WINDOW_ID_NONE: nothing is done.
FocusLost ==
  /\ UNCHANGED vars

\* The query of the focus handler resolves: updateTabActivity(tabs[0].id).
FocusResolved ==
  /\ focusPend # <<>>
  /\ focusPend' = <<>>
  /\ tabActivity' = IF focusPend[1] = {} THEN tabActivity
                    ELSE updateTabActivity(tabActivity, CHOOSE t \in focusPend[1] : TRUE)
  /\ UNCHANGED <<fired, clock, tabs, store, closedTabs, notifications, unloadedTabs,
                 lastUnloadTime, proc, bootPend, bootTabs, restampPend, closeCtx,
                 discardedBy>>

\* The 60 s interval fires: tabs.query({ active: true }) is called.
RestampFired ==
  /\ fired.restamp < clock
  /\ restampPend = <<>>
  /\ restampPend' = <<ActiveIds>>
  /\ fired' = [fired EXCEPT !.restamp = clock]
  /\ UNCHANGED <<clock, tabs, store, closedTabs, notifications, tabActivity, unloadedTabs,
                 lastUnloadTime, proc, bootPend, bootTabs, focusPend, closeCtx,
                 discardedBy>>

\* Its query resolves: tabs.forEach(tab => updateTabActivity(tab.id)).
RestampResolved ==
  /\ restampPend # <<>>
  /\ restampPend' = <<>>
  /\ tabActivity' = [t \in (DOMAIN tabActivity) \cup restampPend[1] |->
                       IF t \in restampPend[1] THEN clock ELSE tabActivity[t]]
  /\ UNCHANGED <<fired, clock, tabs, store, closedTabs, notifications, unloadedTabs,
                 lastUnloadTime, proc, bootPend, bootTabs, focusPend, closeCtx,
                 discardedBy>>

\* initializeTabActivity (called twice when the script loads): its
\* tabs.query({}) resolves and every tab of the result is stamped.
BootResolved ==
  /\ bootPend > 0
  /\ bootPend' = bootPend - 1
  /\ tabActivity' = [t \in (DOMAIN tabActivity) \cup bootTabs |->
                       IF t \in bootTabs THEN clock ELSE tabActivity[t]]
  /\ UNCHANGED <<fired, clock, tabs, store, closedTabs, notifications, unloadedTabs,
                 lastUnloadTime, proc, bootTabs, focusPend, restampPend, closeCtx,
                 discardedBy>>


\* ---------------------------------------------------------- initial states
Pat(pattern, action) == [pattern |-> pattern, action |-> action]

\* One window: at most one active tab; a tab not yet created is not active.
TabsOk(ts) ==
  /\ \A t \in TabIds : ts[t].status = "unborn" => ~ts[t].active /\ ~ts[t].pinned
  /\ Cardinality({t \in TabIds : ts[t].active}) <= 1

\* storage.sync with every key written.
StoreOf(enabled, timeLimit, unloadTimeout, autoKill, behavior, show, patterns, whitelist) ==
  [enabled |-> enabled, timeLimit |-> timeLimit, unloadTimeout |-> unloadTimeout,
   autoKillUnloaded |-> autoKill, defaultBehavior |-> behavior,
   showNotifications |-> show, patterns |-> patterns, whitelist |-> whitelist]

\* The state once the script has been evaluated, storage.local holding one of
\* the logs (it outlives the script): both maps empty,
\* lastUnloadTime = 0, two initializeTabActivity() calls waiting on their
\* query, the periodic triggers created (each first fires one period later).
InitFrom(tabStates, stores, logs) ==
  /\ clock = 1
  /\ tabs \in {ts \in [TabIds -> tabStates] : TabsOk(ts)}
  /\ store \in stores
  /\ closedTabs \in logs
  /\ notifications = <<>>
  /\ tabActivity = <<>>
  /\ unloadedTabs = <<>>
  /\ lastUnloadTime = 0
  /\ proc = [p \in Procs |-> IdleProc]
  /\ bootPend = 2
  /\ bootTabs = {t \in TabIds : tabs[t].status = "open"}
  /\ focusPend = <<>>
  /\ restampPend = <<>>
  /\ closeCtx = [t \in TabIds |-> NoCtx]
  /\ discardedBy = {}
  /\ fired = [inactive |-> 1, unload |-> 1, restamp |-> 1, message |-> 0, events |-> 0]

\* The same with an empty history log in storage.local.
InitWith(tabStates, stores) == InitFrom(tabStates, stores, {<<>>})

\* The steps of the handlers that the alarm checkInactiveTabs starts.
InactiveSteps ==
  \E p \in InactiveProcs :
    \/ SweepLoad(p)
    \/ SweepWhitelist(p)
    \/ SweepQuery(p)
    \/ SweepLoop(p)
    \/ SweepNotify(p)
    \/ SweepRemove(p)
    \/ SweepForget(p)
    \/ HistGet(p)
    \/ HistSync(p)
    \/ HistSet(p)
    \/ HistNotify(p)

\* ------------------------------------------------- the rules of the sweep
\* Every default behaviour with a range of pattern lists and whitelists,
\* over two tabs that are open when the script is loaded.
PatternLists ==
  {<<>>,
   PresetPatterns,
   <<Pat(PatX, "keep")>>,
   <<Pat(PatX, "close"), Pat(PatAll, "keep")>>,
   <<Pat(PatX, "duplicate"), Pat(PatAll, "keep")>>,
   <<Pat(PatY, "keep"), Pat(PatX, "duplicate-no-query")>>}

StoresRules ==
  {StoreOf(<<TRUE>>, <<1>>, <<>>, <<>>, <<b>>, <<FALSE>>, <<ps>>, <<>>) :
     b \in Behaviors, ps \in PatternLists}
  \cup
  {StoreOf(<<>>, <<1>>, <<>>, <<>>, b, <<>>, <<>>, <<<<PatX>>>>) : b \in {<<>>, <<"always">>}}

TabsRules ==
  [status : {"open"}, url : {UrlAbout, UrlXq1, UrlXq2, UrlY}, pinned : {FALSE},
   active : {FALSE}, discarded : {FALSE}, lastAccessed : {0, 1}]

InitRules ==
  /\ InitWith(TabsRules, StoresRules)
  /\ tabs[1].url \in {UrlAbout, UrlXq1, UrlY}
  /\ tabs[2].url \in {UrlAbout, UrlXq1, UrlXq2}
  /\ tabs[1].lastAccessed + tabs[2].lastAccessed > 0

NextRules ==
  \/ Tick(MaxClockRules)
  \/ BootResolved
  \/ AlarmInactive
  \/ InactiveSteps

SpecRules == InitRules /\ [][NextRules]_vars

\* ------------------------------------------- the ledger and the sweep
\* The inactivity sweep among the browser events and timers that write the
\* Activity Ledger, with every tab closed once past the limit.
StoresLedger ==
  {StoreOf(<<TRUE>>, <<1>>, <<>>, <<>>, <<"always">>, <<TRUE>>, <<<<>>>>, <<>>)}

TabsLedger ==
  [status : {"open", "unborn"}, url : {UrlY}, pinned : {FALSE}, active : BOOLEAN,
   discarded : {FALSE}, lastAccessed : {0}]

Init ==
  /\ InitWith(TabsLedger, StoresLedger)
  /\ tabs[1].status = "open" /\ ~tabs[1].active

TabEvents ==
  \E t \in TabIds :
    \/ TabCreated(t)
    \/ TabActivated(t)
    \/ TabCompleted(t)
    \/ TabNavigated(t, UrlXp)
    \/ TabRemoved(t)

Next ==
  \/ Tick(MaxClockRules)
  \/ BootResolved
  \/ AlarmInactive
  \/ InactiveSteps
  \/ TabEvents
  \/ FocusChanged
  \/ FocusLost
  \/ FocusResolved
  \/ RestampFired
  \/ RestampResolved

Spec == Init /\ [][Next]_vars

\* ------------------------------------------------------- the four sweeps
\* The inactivity sweep, the scheduled unload sweep, the manual unload and
\* the reaper over a pinned and an unpinned tab.
StoresSweeps ==
  {StoreOf(<<TRUE>>, <<1>>, <<1>>, <<TRUE>>, <<"always">>, <<TRUE>>, <<<<>>>>, <<>>),
   StoreOf(<<TRUE>>, <<2>>, <<1>>, <<TRUE>>, <<"duplicate">>, <<FALSE>>, <<<<>>>>, <<>>),
   StoreOf(<<FALSE>>, <<1>>, <<1>>, <<TRUE>>, <<"always">>, <<TRUE>>, <<<<>>>>, <<>>)}

TabsSweeps ==
  [status : {"open"}, url : {UrlY}, pinned : BOOLEAN, active : {FALSE},
   discarded : {FALSE}, lastAccessed : {0}]

InitSweeps ==
  /\ InitWith(TabsSweeps, StoresSweeps)
  /\ ~tabs[2].pinned

UnloadSteps ==
  \/ UnloadLoad("U")
  \/ UnloadQuery("U")
  \/ ManualLoad
  \/ ManualQuery
  \/ ReaperRun
  \/ \E p \in UnloadProcs :
       \/ Discard(p)
       \/ AfterDiscard(p)
       \/ HistGet(p)
       \/ HistSync(p)
       \/ HistSet(p)
       \/ HistNotify(p)

\* No sweep is in flight.
Quiet == \A p \in Procs : Resting(p)

\* Here the triggers come one at a time: each finds the sweeps of the
\* trigger before it finished.
NextSweeps ==
  \/ Tick(MaxClock)
  \/ BootResolved
  \/ Quiet /\ AlarmInactive
  \/ InactiveSteps
  \/ Quiet /\ AlarmUnload
  \/ AlarmUnloaded
  \/ Quiet /\ MessageUnload
  \/ UnloadSteps

SpecSweeps == InitSweeps /\ [][NextSweeps]_vars

\* ------------------------------------------------------- the history log
\* The manual unload, alone, appending to a log left by earlier sessions.
\* Entry k of an old log has timestamp k - HistoryCap - 1: the oldest entry
\* of every old log has timestamp -HistoryCap.
OldLog(n) ==
  [k \in 1..n |-> [url |-> UrlXp, timestamp |-> k - HistoryCap - 1, type |-> "closed"]]

OldLogs == {OldLog(n) : n \in {0, 1, HistoryCap - 2, HistoryCap - 1, HistoryCap}}

StoresHistory ==
  {StoreOf(<<TRUE>>, <<1>>, <<>>, <<>>, <<>>, <<show>>, <<>>, <<>>) : show \in BOOLEAN}

TabsHistory ==
  [status : {"open"}, url : {UrlXq1, UrlY}, pinned : {FALSE}, active : {FALSE},
   discarded : {FALSE}, lastAccessed : {0}]

InitHistory == InitFrom(TabsHistory, StoresHistory, OldLogs)

NextHistory ==
  \/ Tick(MaxClockRules)
  \/ BootResolved
  \/ MessageUnload
  \/ ManualLoad
  \/ ManualQuery
  \/ Discard("M")
  \/ AfterDiscard("M")
  \/ HistGet("M")
  \/ HistSync("M")
  \/ HistSet("M")
  \/ HistNotify("M")

SpecHistory == InitHistory /\ [][NextHistory]_vars

\* ------------------------------------------------ the unload sweeps
\* The scheduled unload sweep, the manual unload and the reaper, which may
\* overlap, with a tab activated or removed by the user.
StoresUnload ==
  {StoreOf(<<TRUE>>, <<1>>, <<n>>, <<kill>>, <<>>, <<kill>>, <<>>, <<>>) :
     n \in {1, 2}, kill \in BOOLEAN}

TabsUnload ==
  [status : {"open"}, url : {UrlY}, pinned : BOOLEAN, active : BOOLEAN,
   discarded : BOOLEAN, lastAccessed : {0}]

InitUnload ==
  /\ InitWith(TabsUnload, StoresUnload)
  /\ ~tabs[1].pinned /\ ~tabs[1].active /\ ~tabs[1].discarded
  /\ Cardinality({x \in {tabs[2].pinned, tabs[2].active, tabs[2].discarded} : x}) <= 1

NextUnload ==
  \/ Tick(MaxClock)
  \/ BootResolved
  \/ AlarmUnload
  \/ AlarmUnloaded
  \/ MessageUnload
  \/ UnloadSteps
  \/ \E t \in TabIds : TabActivated(t) \/ TabRemoved(t)

SpecUnload == InitUnload /\ [][NextUnload]_vars

\* ------------------------------------------------------------ the reaper
\* The scheduled unload sweep and the reaper its alarm starts, a tab the
\* user activates or removes, and a day of sleep after which the alarm fires
\* again.
StoresReaper ==
  {StoreOf(<<TRUE>>, <<1>>, <<n>>, <<kill>>, <<>>, <<TRUE>>, <<>>, <<>>) :
     n \in {1, 2}, kill \in BOOLEAN}

InitReaper ==
  /\ InitWith(TabsUnload, StoresReaper)
  /\ ~tabs[1].pinned /\ ~tabs[1].active /\ ~tabs[1].discarded
  /\ Cardinality({x \in {tabs[2].pinned, tabs[2].active, tabs[2].discarded} : x}) <= 1

NextReaper ==
  \/ Tick(MaxClockReaper)
  \/ DayPasses
  \/ BootResolved
  \/ AlarmUnload
  \/ AlarmUnloaded
  \/ UnloadLoad("U")
  \/ UnloadQuery("U")
  \/ ReaperRun
  \/ Discard("U")
  \/ AfterDiscard("U")
  \/ HistGet("U")
  \/ HistSync("U")
  \/ HistSet("U")
  \/ HistNotify("U")
  \/ \E t \in TabIds : TabActivated(t) \/ TabRemoved(t)

SpecReaper == InitReaper /\ [][NextReaper]_vars

\* ------------------------------------------------- malformed patterns
\* The inactivity sweep over three minutes with pattern lists that hold a
\* malformed expression, and with the preset list, every tab closed once
\* past the limit.
StoresMalformed ==
  {StoreOf(<<TRUE>>, <<1>>, <<>>, <<>>, <<"always">>, <<TRUE>>, <<ps>>, <<>>) :
     ps \in {PresetPatterns,
             <<Pat(PatBad, "keep")>>,
             <<Pat(PatY, "keep"), Pat(PatBad, "keep")>>}}

TabsMalformed ==
  [status : {"open"}, url : {UrlXq1, UrlY}, pinned : {FALSE}, active : {FALSE},
   discarded : {FALSE}, lastAccessed : {0}]

InitMalformed == InitWith(TabsMalformed, StoresMalformed)

NextMalformed ==
  \/ Tick(MaxClock)
  \/ BootResolved
  \/ AlarmInactive
  \/ InactiveSteps

SpecMalformed == InitMalformed /\ [][NextMalformed]_vars

\* ------------------------------------------- a failing history store
\* The inactivity sweep when storage.local may reject a read or a write.
StoresFaults ==
  {StoreOf(<<TRUE>>, <<1>>, <<>>, <<>>, <<"always">>, <<show>>, <<>>, <<>>) : show \in BOOLEAN}

InitFaults == InitWith(TabsMalformed, StoresFaults)

NextFaults ==
  \/ Tick(MaxClockRules)
  \/ BootResolved
  \/ AlarmInactive
  \/ InactiveSteps
  \/ \E p \in InactiveProcs :
       \/ HistGetFails(p)
       \/ HistSetFails(p)
       \/ HistCaught(p)

SpecFaults == InitFaults /\ [][NextFaults]_vars

\* ------------------------------------------------------ an empty store
\* Every handler reading its settings from a storage.sync in which no key
\* was ever written; two tabs of one site that differ in their query, and a
\* day of sleep after which the scheduled unload sweep passes its gate.
StoresDefaults == {StoreOf(<<>>, <<>>, <<>>, <<>>, <<>>, <<>>, <<>>, <<>>)}

TabsDefaults ==
  [status : {"open"}, url : {UrlXq1, UrlXq2}, pinned : {FALSE}, active : {FALSE},
   discarded : {FALSE}, lastAccessed : {0, 1}]

InitDefaults ==
  /\ InitWith(TabsDefaults, StoresDefaults)
  /\ tabs[1].url = UrlXq1

NextDefaults ==
  \/ Tick(MaxClock)
  \/ DayPasses
  \/ BootResolved
  \/ Quiet /\ AlarmInactive
  \/ InactiveSteps
  \/ Quiet /\ AlarmUnload
  \/ UnloadLoad("U")
  \/ UnloadQuery("U")
  \/ ReaperRun
  \/ Discard("U")
  \/ AfterDiscard("U")
  \/ HistGet("U")
  \/ HistSync("U")
  \/ HistSet("U")
  \/ HistNotify("U")

SpecDefaults == InitDefaults /\ [][NextDefaults]_vars

\* --------------------------------------------------- the sweeps, fairly
\* The four sweeps with every setting on, where a browser call that is
\* pending settles in the end: the continuation of every suspended handler
\* runs.
InitLive ==
  /\ InitSweeps
  /\ store.enabled = <<TRUE>> /\ store.defaultBehavior = <<"always">>
  /\ tabs[1].pinned

SpecLive == InitLive /\ [][NextSweeps]_vars /\ WF_vars(InactiveSteps) /\ WF_vars(UnloadSteps)

\* ----------------------------------------------------- equivalence keys
\* The inactivity sweep under the defaults duplicate-no-query and
\* duplicate-domain over a tab https://x.com/?q=1 and a second tab that
\* differs from it in the query, in the fragment, in the path or in the host.
InitKeys ==
  /\ InitWith([status : {"open"}, url : {UrlXq1, UrlXq2, UrlXf, UrlXp, UrlY},
               pinned : {FALSE}, active : {FALSE}, discarded : {FALSE},
               lastAccessed : {0, 1}],
              {StoreOf(<<TRUE>>, <<1>>, <<>>, <<>>, <<b>>, <<TRUE>>, <<(<<>>)>>, <<>>) :
                 b \in {"duplicate-no-query", "duplicate-domain"}})
  /\ tabs[1].url = UrlXq1

SpecKeys == InitKeys /\ [][NextRules]_vars

\* ------------------------------------------- overlapping unload passes
\* The scheduled unload sweep with unloadTimeout = 2 over two tabs it may
\* discard, when a browser call of a pass may take a minute to settle and
\* the next tick of the alarm finds the pass still in flight.
InitOverlap ==
  /\ InitWith(TabsMalformed,
              {StoreOf(<<TRUE>>, <<>>, <<2>>, <<>>, <<>>, <<FALSE>>, <<>>, <<>>)})

NextOverlap ==
  \/ Tick(MaxClockReaper)
  \/ SlowTick(MaxClockReaper)
  \/ BootResolved
  \/ AlarmUnload
  \/ AlarmUnloadOverlap
  \/ ReaperRun
  \/ \E p \in ScheduledProcs :
       \/ UnloadLoad(p)
       \/ UnloadQuery(p)
       \/ Discard(p)
       \/ AfterDiscard(p)
       \/ HistGet(p)
       \/ HistSync(p)
       \/ HistSet(p)

SpecOverlap == InitOverlap /\ [][NextOverlap]_vars

\* --------------------------------------------------------------- claims
\* The tab was removed by checkInactiveTabs.
ClosedBySweep(t) == closeCtx[t].by \in InactiveProcs

\* The tab as the closing sweep saw it in its snapshot.
SnapTab(t) == CHOOSE x \in SeqRange(closeCtx[t].snapshot) : x.id = t

\* The index of the first pattern whose expression matches the URL, 0 if none.
RECURSIVE FirstMatchFrom(_, _, _)
FirstMatchFrom(url, patterns, k) ==
  IF k > Len(patterns) THEN 0
  ELSE IF ~Malformed(patterns[k].pattern) /\ matchesPattern(url, patterns[k].pattern) THEN k
  ELSE FirstMatchFrom(url, patterns, k + 1)

FirstMatch(url, patterns) == FirstMatchFrom(url, patterns, 1)

\* The patterns in force: the whitelist as keep patterns, then the patterns.
MergedPatterns ==
  TransformWhitelist(StoreGet("whitelist", <<>>)) \o StoreGet("patterns", PresetPatterns)

\* C1: the inactivity sweep never closes a tab for which now minus the
\* ledger's lastActive, as the sweep read them, is less than timeLimit minutes.
C1_FreshNeverClosed ==
  \A t \in TabIds :
    ClosedBySweep(t) =>
      closeCtx[t].now - closeCtx[t].lastAccess >= closeCtx[t].settings.timeLimit * MinuteMs

\* A sweep in flight has found one tab still within the limit, by a ledger
\* entry younger than the limit, while a sweep has closed another tab.
C1_Witness ==
  \E p \in InactiveProcs, t \in TabIds :
    /\ proc[p].evals[t].v = "fresh"
    /\ proc[p].evals[t].lastAccess > 0
    /\ tabs[t].status = "open"
    /\ \E u \in TabIds \ {t} : ClosedBySweep(u)

\* C2: a tab whose URL starts with about: is never removed by a sweep,
\* whatever the patterns and defaultBehavior are.
C2_AboutNeverClosed ==
  \A t \in TabIds :
    closeCtx[t].by \in InactiveProcs \cup {"R"} => ~StartsWithAbout(tabs[t].url)

C4_NeverClosesNothing ==
  \A t \in TabIds :
    ClosedBySweep(t) =>
      ~(/\ closeCtx[t].settings.defaultBehavior = "never"
        /\ FirstMatch(SnapTab(t).url, closeCtx[t].settings.patterns) = 0)

\* C5: a non-pinned tab whose first matching pattern has action keep (from
\* the whitelist or from the configured patterns) is never closed by the
\* inactivity sweep.
C5_KeepNeverClosed ==
  \A t \in TabIds :
    ClosedBySweep(t) =>
      LET ps == closeCtx[t].settings.patterns
          k == FirstMatch(SnapTab(t).url, ps)
      IN ~(k > 0 /\ ps[k].action = "keep")

\* The duplicate mode that applies to a URL: the action of the first matching
\* pattern, the default behaviour when no pattern matches; "" if neither is
\* a duplicate mode.
ModeFor(url, settings) ==
  LET k == FirstMatch(url, settings.patterns)
      a == IF k > 0 THEN settings.patterns[k].action ELSE settings.defaultBehavior
  IN IF a \in DuplicateModes THEN a ELSE ""

\* The alarm has fired once, at minute 2, and both invocations that it
\* started have finished.
TickDone ==
  /\ fired.inactive = 2
  /\ \A p \in InactiveProcs : proc[p].pc = "done"

\* The tab was past the limit when the tick's sweeps looked at it: a sweep
\* closed it, or its ledger entry is still timeLimit minutes old.
PastLimit(t) ==
  \/ ClosedBySweep(t)
  \/ /\ tabs[t].status = "open"
     /\ t \in DOMAIN tabActivity
     /\ clock - tabActivity[t] >= StoreGet("timeLimit", 2) * MinuteMs

\* No tab but a and b is or was open during the tick.
OnlyTabs(a, b) ==
  \A c \in TabIds \ {a, b} : tabs[c].status # "open" /\ ~ClosedBySweep(c)

\* Exactly two tabs, a (older) and b, non-pinned, with the same URL, that no
\* pattern matches, under the default behaviour duplicate, both past the limit.
SameUrlPair(a, b) ==
  /\ a # b
  /\ OnlyTabs(a, b)
  /\ tabs[a].url = tabs[b].url
  /\ tabs[a].lastAccessed < tabs[b].lastAccessed
  /\ ~tabs[a].pinned /\ ~tabs[b].pinned
  /\ StoreGet("defaultBehavior", "duplicate-no-query") = "duplicate"
  /\ FirstMatch(tabs[a].url, MergedPatterns) = 0
  /\ PastLimit(a) /\ PastLimit(b)

\* C6 as stated: for two same-URL tabs with distinct lastAccessed, both past
\* the limit, default duplicate and no matching pattern, after the sweeps of
\* one tick exactly the older tab has been closed.
C6_ExactlyOlderClosed ==
  \A a, b \in TabIds :
    TickDone /\ SameUrlPair(a, b) =>
      ClosedBySweep(a) /\ tabs[b].status = "open"

\* C6 amended: the same for two tabs whose URL is not an about: URL.
C6_ExactlyOlderClosedNotAbout ==
  \A a, b \in TabIds :
    TickDone /\ SameUrlPair(a, b) /\ ~StartsWithAbout(tabs[a].url) =>
      ClosedBySweep(a) /\ tabs[b].status = "open"

\* The tick's sweeps have finished over two https tabs of one URL, the older
\* closed and the newer, its ledger entry a minute old, still open.
C6_Witness ==
  \E a, b \in TabIds :
    /\ TickDone /\ SameUrlPair(a, b) /\ ~StartsWithAbout(tabs[a].url)
    /\ ClosedBySweep(a)
    /\ tabs[b].status = "open" /\ clock - tabActivity[b] >= 1

\* C7: under a duplicate mode (from the default behaviour or from a matching
\* pattern) a tab is closed only if every tab sharing its key has a strictly
\* greater lastAccessed; tabs with equal lastAccessed are both left open.
C7_TieLeavesBothOpen ==
  \A t \in TabIds :
    ClosedBySweep(t) =>
      LET m == ModeFor(SnapTab(t).url, closeCtx[t].settings)
      IN m # "" =>
           \A d \in DuplicatesUnder(m, SnapTab(t), closeCtx[t].snapshot) :
             SnapTab(t).lastAccessed < d.lastAccessed

\* C8: under a duplicate default behaviour with no matching pattern, a tab
\* whose key no other tab of the snapshot shares is never closed.
C8_UniqueNeverClosed ==
  \A t \in TabIds :
    ClosedBySweep(t) =>
      LET st == closeCtx[t].settings
      IN ~(/\ st.defaultBehavior \in DuplicateModes
           /\ FirstMatch(SnapTab(t).url, st.patterns) = 0
           /\ DuplicatesUnder(st.defaultBehavior, SnapTab(t), closeCtx[t].snapshot) = {})

\* A finished sweep looked at a tab past the limit that no pattern matches and
\* whose key is unique among the open tabs, under a duplicate default, and
\* left it open.
C8_Witness ==
  \E p \in InactiveProcs, t \in TabIds :
    /\ proc[p].pc = "done"
    /\ proc[p].evals[t].v = "skip"
    /\ \A u \in TabIds : tabs[u].status = "open"
    /\ StoreGet("defaultBehavior", "duplicate-no-query") \in DuplicateModes
    /\ FirstMatch(tabs[t].url, MergedPatterns) = 0
    /\ ~StartsWithAbout(tabs[t].url)
    /\ DuplicatesUnder(StoreGet("defaultBehavior", "duplicate-no-query"),
                       [id |-> t, url |-> tabs[t].url], QueryAll) = {}

\* The closed entries of the history log for a URL.
ClosedEntries(url) ==
  {k \in 1..Len(closedTabs) : closedTabs[k].url = url /\ closedTabs[k].type = "closed"}

\* C9: tab 1 (A) and tab 2 (B) differ only in the query, A is the older, both
\* are past the limit, default duplicate-no-query, no pattern: once the
\* handlers that the alarm tick started have finished, under any interleaving,
\* A is closed, B is open and the log holds exactly one closed entry for A's URL.
C9_OneHistoryEntry ==
  (/\ TickDone
   /\ tabs[1].url = UrlXq1 /\ tabs[2].url = UrlXq2
   /\ tabs[1].lastAccessed < tabs[2].lastAccessed
   /\ StoreGet("defaultBehavior", "duplicate-no-query") = "duplicate-no-query"
   /\ MergedPatterns = <<>>
   /\ OnlyTabs(1, 2)
   /\ PastLimit(1) /\ PastLimit(2))
  => /\ ClosedBySweep(1)
     /\ tabs[2].status = "open"
     /\ Cardinality(ClosedEntries(UrlXq1)) = 1

\* C10: the first pattern that matches the URL alone decides: the sweep
\* decides the same with the patterns after it removed and with any other
\* default behaviour.
C10_FirstMatchAloneDecides ==
  \A t \in TabIds :
    ClosedBySweep(t) =>
      LET st == closeCtx[t].settings
          k == FirstMatch(SnapTab(t).url, st.patterns)
      IN k > 0 =>
           \A b \in Behaviors :
             EvalTab(SnapTab(t),
                     [st EXCEPT !.patterns = SubSeq(st.patterns, 1, k), !.defaultBehavior = b],
                     closeCtx[t].snapshot, closeCtx[t].now, closeCtx[t].lastAccess) = "close"

\* The duplicate action of the first pattern that matches the URL, "" if the
\* first match is no duplicate action or nothing matches.
PatternMode(url, patterns) ==
  LET k == FirstMatch(url, patterns)
  IN IF k > 0 /\ patterns[k].action \in DuplicateModes THEN patterns[k].action ELSE ""

\* The tab is strictly older than every other tab of allTabs that shares its
\* key under the mode, and there is such a tab.
StrictlyOldest(mode, tab, allTabs) ==
  /\ DuplicatesUnder(mode, tab, allTabs) # {}
  /\ \A d \in DuplicatesUnder(mode, tab, allTabs) : tab.lastAccessed < d.lastAccessed

\* C11: when the first matching pattern of a tab past the limit has a
\* duplicate action, the sweep closes the tab if and only if it is the strictly
\* oldest of the tabs sharing its key, whatever the default behaviour is.
C11_PatternModeDecides ==
  /\ \A t \in TabIds :
       ClosedBySweep(t) =>
         LET m == PatternMode(SnapTab(t).url, closeCtx[t].settings.patterns)
         IN m # "" => StrictlyOldest(m, SnapTab(t), closeCtx[t].snapshot)
  /\ \A p \in InactiveProcs, t \in TabIds :
       (/\ proc[p].pc = "done"
        /\ proc[p].evals[t].v = "skip"
        /\ \A u \in TabIds : tabs[u].status = "open")
       => LET m == PatternMode(tabs[t].url, MergedPatterns)
              tab == CHOOSE x \in SeqRange(QueryAll) : x.id = t
          IN m # "" => ~StrictlyOldest(m, tab, QueryAll)

\* C12: sequential appends never leave more than 100 entries in the log; an
\* append to a full log removes exactly the oldest entry, puts the new entry
\* last and keeps the order of the others.
C12_BoundedFifo ==
  [][closedTabs' # closedTabs =>
       LET new == closedTabs'[Len(closedTabs')]
       IN /\ Len(closedTabs') <= HistoryCap
          /\ closedTabs' = IF Len(closedTabs) < HistoryCap
                           THEN Append(closedTabs, new)
                           ELSE Append(Tail(closedTabs), new)]_vars

\* A full log whose oldest entry has been evicted: its second entry is now
\* the first, and an entry of this session is the last.
C12_Witness ==
  /\ Len(closedTabs) = HistoryCap
  /\ closedTabs[1].timestamp = 1 - HistoryCap
  /\ closedTabs[HistoryCap].type = "unloaded"
  /\ closedTabs[HistoryCap].timestamp = clock

\* C13: while the stored enabled is false, no step of an inactivity sweep,
\* of the scheduled unload sweep or of the manual unload closes or discards
\* a tab, appends to the history, raises a notification, or changes the
\* Activity Ledger, the Unload Tracker or the last-unload-pass marker.
C13_DisabledSweepInert ==
  [][(store.enabled = <<FALSE>> /\ \E p \in InactiveProcs \cup UnloadProcs : proc'[p] # proc[p])
       => UNCHANGED <<tabs, closedTabs, notifications, tabActivity, unloadedTabs,
                      lastUnloadTime, closeCtx, discardedBy>>]_vars

\* All three sweeps have run disabled at minute MaxClock over an unpinned
\* tab that is past every limit, and nothing happened.
C13_Witness ==
  /\ store.enabled = <<FALSE>>
  /\ clock = MaxClock
  /\ fired.inactive = clock /\ fired.unload = clock /\ fired.message = clock
  /\ \A p \in InactiveProcs \cup UnloadProcs : proc[p].pc = "done"
  /\ \E t \in TabIds :
       /\ tabs[t].status = "open" /\ ~tabs[t].pinned /\ ~tabs[t].active /\ ~tabs[t].discarded
       /\ t \in DOMAIN tabActivity
       /\ clock - tabActivity[t] >= 2 * MinuteMs
  /\ closedTabs = <<>> /\ notifications = <<>> /\ discardedBy = {} /\ lastUnloadTime = 0

\* (settings.unloadTimeout || 30) * 60 * 1000, of the stored settings.
StoredUnloadInterval ==
  LET timeout == StoreGet("unloadTimeout", 30)
  IN (IF timeout = 0 THEN 30 ELSE timeout) * MinuteMs

\* The step on which checkUnloadTabs, its settings read, reaches its gate.
AtUnloadGate == proc["U"].pc = "load" /\ proc'["U"] # proc["U"]

\* C14: a run of the scheduled unload sweep that reaches its gate less than
\* unloadTimeout minutes after the last-unload-pass marker ends there: it
\* goes on to no tab query and no discard and leaves the marker as it was.
C14_GatedRunInert ==
  [][(AtUnloadGate /\ lastUnloadTime # 0 /\ clock - lastUnloadTime < StoredUnloadInterval)
       => /\ proc'["U"].pc = "done"
          /\ UNCHANGED <<lastUnloadTime, tabs, discardedBy, closedTabs, notifications>>]_vars

\* With unloadTimeout = 2 the run of minute 2 stamped the marker, the pass
\* of minute 4 discarded a tab, and the run of minute 5 was stopped at the
\* gate with a tab to discard in front of it.
C14_Witness ==
  /\ StoredUnloadInterval = 2 * MinuteMs
  /\ clock = 5 /\ fired.unload = clock
  /\ proc["U"].pc = "done"
  /\ lastUnloadTime = 4
  /\ \E d \in discardedBy : d.by = "U" /\ d.ok /\ d.at = 4
  /\ \E t \in TabIds :
       tabs[t].status = "open" /\ ~tabs[t].pinned /\ ~tabs[t].active /\ ~tabs[t].discarded

\* The step on which a pass of checkUnloadTabs that got past its gate ends.
PassCompletes == proc["U"].pc \notin {"idle", "load", "done"} /\ proc'["U"].pc = "done"

\* C15: the step that ends a scheduled unload pass sets the last-unload-pass
\* marker to the time the pass took at its gate, with or without discards
\* and failed discards; and a run gets past the gate only when the marker is
\* at least unloadTimeout minutes old.
C15_PassStampsMarker ==
  [][/\ PassCompletes => lastUnloadTime' = proc["U"].now /\ proc["U"].now = clock
     /\ (AtUnloadGate /\ proc'["U"].pc = "query")
          => (lastUnloadTime = 0 \/ clock - lastUnloadTime >= StoredUnloadInterval)]_vars

\* A pass has just completed whose discard failed (the tab was closed after
\* the query), no tab was discarded in it, and the marker is its time.
C15_Witness ==
  /\ proc["U"].pc = "done" /\ fired.unload = clock
  /\ lastUnloadTime = clock
  /\ \E d \in discardedBy : d.by = "U" /\ ~d.ok /\ d.at = clock
  /\ \A d \in discardedBy : d.at = clock => ~d.ok

\* C16: after a scheduled unload pass, every tab the pass discarded has an
\* UnloadRecord in the Unload Tracker (with the discard time) and an
\* unloaded HistoryEntry with its URL and that time.  The tabs looked at
\* are those the pass discarded that are still open and discarded.
C16_DiscardedAreTracked ==
  (proc["U"].pc = "done" /\ lastUnloadTime = clock)
    => \A t \in {d.tab.id : d \in {e \in discardedBy :
                  /\ e.by = "U" /\ e.ok /\ e.at = lastUnloadTime
                  /\ tabs[e.tab.id].status = "open" /\ tabs[e.tab.id].discarded
                  /\ ~tabs[e.tab.id].active}} :
         /\ t \in DOMAIN unloadedTabs
         /\ unloadedTabs[t] = lastUnloadTime
         /\ \E k \in DOMAIN closedTabs :
              closedTabs[k] = [url |-> tabs[t].url, timestamp |-> clock, type |-> "unloaded"]

\* C17: no tabs.discard call of the scheduled unload sweep or of the manual
\* unload is for a tab that its snapshot shows pinned, active or discarded;
\* and when a scheduled unload pass ends, tabs.discard has been called in it
\* for every tab of its snapshot that is none of the three.  The snapshot
\* of the pass in flight is the answer of tabs.query({}) while it resolves,
\* the array the loop runs over after.
C17_DiscardsExactlyEligible ==
  [][LET snapshot == IF proc["U"].pc = "query" THEN QueryAll ELSE proc["U"].tabs
     IN /\ \A d \in discardedBy' : ~d.tab.pinned /\ ~d.tab.active /\ ~d.tab.discarded
        /\ PassCompletes =>
             \A k \in DOMAIN snapshot :
               (~snapshot[k].pinned /\ ~snapshot[k].active /\ ~snapshot[k].discarded)
                 => \E d \in discardedBy' :
                      d.by = "U" /\ d.tab = snapshot[k] /\ d.at = clock]_vars

\* Both sweeps have called tabs.discard, and a tab that is pinned, active or
\* discarded since the start is still open and was never handed to it.
C17_Witness ==
  /\ proc["U"].pc = "done" /\ proc["M"].pc = "done"
  /\ \E d \in discardedBy : d.by = "U" /\ d.ok
  /\ \E d \in discardedBy : d.by = "M" /\ d.ok
  /\ \E t \in TabIds :
       /\ tabs[t].status = "open"
       /\ tabs[t].pinned \/ tabs[t].active \/ tabs[t].discarded
       /\ \A d \in discardedBy : d.tab.id # t

\* The step on which checkAndKillUnloadedTabs runs, its settings read.
ReaperRuns == proc["R"].pc = "load" /\ proc'["R"].pc = "done"

\* Tab t was discarded by a scheduled unload pass at least 24 hours ago and
\* is now open, not pinned, not active and discarded.
StaleDiscarded(t) ==
  /\ \E d \in discardedBy :
       d.by = "U" /\ d.ok /\ d.tab.id = t /\ clock - d.at >= KILL_AFTER_MS
  /\ tabs[t].status = "open"
  /\ ~tabs[t].pinned /\ ~tabs[t].active /\ tabs[t].discarded

\* C18: with autoKillUnloaded = true, a reaper run removes every tab that the
\* engine discarded 24 hours ago or earlier and that still exists, is not
\* pinned, is not active and is still discarded; it appends a killed
\* HistoryEntry with the tab's URL and leaves no UnloadRecord for the tab.
C18_StaleDiscardedReaped ==
  [][(ReaperRuns /\ store.autoKillUnloaded = <<TRUE>>)
       => \A t \in TabIds :
            StaleDiscarded(t)
              => /\ tabs'[t].status = "closed"
                 /\ \E k \in DOMAIN closedTabs' :
                      /\ closedTabs'[k].type = "killed"
                      /\ closedTabs'[k].url = tabs[t].url
                 /\ t \notin DOMAIN unloadedTabs']_vars

C22_FailedCloseContinues ==
  [][\A p \in InactiveProcs :
       (/\ proc[p].pc = "remove" /\ proc'[p] # proc[p]
        /\ tabs[CurTab(p).id].status # "open"
        /\ proc[p].i < Len(proc[p].tabs))
         => proc'[p].pc = "loop" /\ proc'[p].i = proc[p].i + 1]_vars

ThisTickDone ==
  /\ fired.inactive = clock
  /\ \A p \in InactiveProcs : proc[p].pc = "done"

\* C24: a pattern list that holds nothing but a malformed expression
\* matches no URL and stops no sweep: under the default behaviour always,
\* once a tick's sweeps have ended no unpinned tab past the limit is open
\* (no open, unpinned tab that is not an about: page has a ledger entry
\* timeLimit minutes old or older).
C24_MalformedSkipped ==
  (/\ store.patterns = <<(<<Pat(PatBad, "keep")>>)>>
   /\ store.defaultBehavior = <<"always">>
   /\ ThisTickDone)
    => \A t \in TabIds :
         ~(/\ tabs[t].status = "open"
           /\ ~tabs[t].pinned
           /\ ~StartsWithAbout(tabs[t].url)
           /\ t \in DOMAIN tabActivity
           /\ clock - tabActivity[t] >= StoreGet("timeLimit", 2) * MinuteMs)

\* C25: when a read or a write of the history store has failed while an
\* inactivity sweep records a close, the sweep ends there: it does not go
\* on to close the tab, nor any further tab of the tick.
C25_HistoryFailureAborts ==
  [][\A p \in InactiveProcs :
       (proc[p].pc = "hist_failed" /\ proc'[p] # proc[p]) => proc'[p].pc = "done"]_vars

\* A step of the manual unload in which iterations of its loop run: from
\* the resolved tabs.query, after addToHistory, or after a rejected discard,
\* up to the next tabs.discard call or the end of the loop.
ManualLoopRuns ==
  /\ proc["M"].pc \in {"query", "discard", "next"}
  /\ proc'["M"] # proc["M"]
  /\ proc'["M"].pc \in {"discard", "done"}

\* The indices of those iterations (with their snapshot, their now and their
\* first index) whose tab the snapshot shows not pinned, not active and not
\* discarded and whose ledger idle time is minIdle or more.
ManualDue(minIdle) ==
  LET atQuery == proc["M"].pc = "query"
      snapshot == IF atQuery THEN QueryAll ELSE proc["M"].tabs
      now == IF atQuery THEN clock ELSE proc["M"].now
      from == IF atQuery THEN 1 ELSE proc["M"].i + 1
  IN {k \in from..Len(snapshot) :
        LET tab == snapshot[k]
        IN /\ ~tab.pinned /\ ~tab.active /\ ~tab.discarded
           /\ now - getTabLastAccess(tab.id) >= minIdle}

\* The loop of the manual unload calls tabs.discard for exactly the tabs of
\* ManualDue(minIdle), in snapshot order; no step of the manual unload
\* changes the last-unload-pass marker; its settings read goes on to the
\* tabs query whatever the marker is.
ManualDiscardsExactly(minIdle) ==
  /\ ManualLoopRuns =>
       IF ManualDue(minIdle) = {}
       THEN proc'["M"].pc = "done"
       ELSE /\ proc'["M"].pc = "discard"
            /\ proc'["M"].i \in ManualDue(minIdle)
            /\ \A k \in ManualDue(minIdle) : proc'["M"].i <= k
  /\ proc'["M"] # proc["M"] => lastUnloadTime' = lastUnloadTime
  /\ (proc["M"].pc = "load" /\ proc'["M"] # proc["M"] /\ StoreGet("enabled", TRUE))
       => proc'["M"].pc = "query"

\* C26, as stated: the manual unload discards exactly the eligible snapshot
\* tabs whose ledger idle time exceeds timeLimit minutes.
C26_ManualExceedsLimit ==
  [][ManualDiscardsExactly(StoreGet("timeLimit", 2) * MinuteMs + 1)]_vars

\* C26, amended: the manual unload calls tabs.discard for exactly the
\* snapshot tabs that are not pinned, not active, not discarded and whose
\* ledger idle time is at least timeLimit minutes (equal included); it
\* ignores unloadTimeout and the last-unload-pass marker and leaves the
\* marker unchanged.
C26_ManualAtLeastLimit ==
  [][ManualDiscardsExactly(StoreGet("timeLimit", 2) * MinuteMs)]_vars

\* The manual unload has discarded a tab idle for exactly timeLimit while
\* the gate of the scheduled sweep (unloadTimeout = 2) was closed.
C26_Witness ==
  /\ proc["M"].pc = "done"
  /\ StoredUnloadInterval = 2 * MinuteMs
  /\ lastUnloadTime # 0 /\ clock - lastUnloadTime < StoredUnloadInterval
  /\ \E d \in discardedBy :
       /\ d.by = "M" /\ d.ok /\ d.at = clock
       /\ tabs[d.tab.id].discarded
       /\ d.tab.id \in DOMAIN tabActivity
       /\ clock - tabActivity[d.tab.id] = StoreGet("timeLimit", 2) * MinuteMs

\* C27: a tab without an Activity Ledger entry when an inactivity sweep or
\* the manual unload evaluates it counts as accessed at that instant
\* (elapsed 0): with timeLimit of 1 minute or more the sweep skips it as
\* pinned or as within the limit, the manual unload does not discard it,
\* and the evaluation writes no ledger entry.
C27_UnknownTabIsFresh ==
  [][StoreGet("timeLimit", 2) >= 1 =>
       /\ \A p \in InactiveProcs :
            (proc[p].pc = "loop" /\ proc'[p] # proc[p]) =>
              /\ tabActivity' = tabActivity
              /\ \A k \in proc[p].i..(IF proc'[p].pc = "done" THEN Len(proc[p].tabs)
                                                            ELSE proc'[p].i) :
                   LET tab == proc[p].tabs[k]
                   IN (k <= Len(proc[p].tabs) /\ tab.id \notin DOMAIN tabActivity) =>
                        /\ proc'[p].evals[tab.id].v \in {"pinned", "fresh"}
                        /\ proc'[p].evals[tab.id].lastAccess = clock
                        /\ proc[p].now - proc'[p].evals[tab.id].lastAccess = 0
       /\ ManualLoopRuns =>
            /\ tabActivity' = tabActivity
            /\ proc'["M"].pc = "discard" =>
                 proc'["M"].tabs[proc'["M"].i].id \in DOMAIN tabActivity]_vars

\* Before initializeTabActivity has stamped anything, the sweeps of a tick
\* and the manual unload have looked at an unpinned tab of minute 1 that has
\* no ledger entry: it was found within the limit, it is open, not
\* discarded, and still without an entry.
C27_Witness ==
  /\ clock >= 2
  /\ ThisTickDone
  /\ proc["M"].pc = "done" /\ fired.message = clock
  /\ \E t \in TabIds :
       /\ tabs[t].status = "open" /\ ~tabs[t].pinned /\ ~tabs[t].active /\ ~tabs[t].discarded
       /\ t \notin DOMAIN tabActivity
       /\ \A p \in InactiveProcs : proc[p].evals[t] = [v |-> "fresh", lastAccess |-> clock]

\* C28: the step of each of these events leaves the Activity Ledger entry
\* of the tab concerned equal to Date.now(): a tab created, a tab activated,
\* a URL changed, a navigation completed, the resolved query of the 60 s
\* re-stamp (every tab it returned), the resolved query of a focus change
\* (the tab it returned); and no step lowers an entry.
C28_EventsStampLedger ==
  [][LET StampedNow(t) == t \in DOMAIN tabActivity' /\ tabActivity'[t] = clock IN
     /\ \A t \in TabIds :
          /\ (tabs[t].status = "unborn" /\ tabs'[t].status = "open") => StampedNow(t)
          /\ (~tabs[t].active /\ tabs'[t].active) => StampedNow(t)
          /\ tabs'[t].url # tabs[t].url => StampedNow(t)
          /\ (restampPend # <<>> /\ restampPend' = <<>> /\ t \in restampPend[1])
               => StampedNow(t)
          /\ (focusPend # <<>> /\ focusPend' = <<>> /\ t \in focusPend[1]) => StampedNow(t)
          /\ (t \in DOMAIN tabActivity /\ t \in DOMAIN tabActivity')
               => tabActivity'[t] >= tabActivity[t]
     /\ (fired'.events # fired.events /\ tabs' = tabs /\ focusPend' = focusPend)
          => \E t \in TabIds :
               tabs[t].status = "open" /\ tabActivity' = MapSet(tabActivity, t, clock)]_vars

\* At minute 2 a tab stamped at minute 1 by initializeTabActivity has been
\* activated: its entry is 2, the other tab's is still 1.
C28_Witness ==
  /\ clock = 2 /\ bootPend = 0
  /\ \E t, u \in TabIds :
       /\ tabs[t].status = "open" /\ tabs[t].active
       /\ t \in DOMAIN tabActivity /\ tabActivity[t] = 2
       /\ tabs[t].lastAccessed = 2
       /\ u \in DOMAIN tabActivity /\ tabActivity[u] = 1

\* C29: with an empty store the handlers use enabled = true, timeLimit = 2,
\* unloadTimeout = 30, defaultBehavior = duplicate-no-query,
\* showNotifications = true and autoKillUnloaded = true: the settings a
\* sweep works with once its read has resolved are these, and a reaper that
\* has run got past its autoKillUnloaded test.
C29_DocumentedDefaults ==
  (\A k \in DOMAIN store : store[k] = <<>>) =>
    /\ \A p \in InactiveProcs :
         proc[p].pc \notin {"idle", "load", "done"} =>
           /\ proc[p].settings.enabled
           /\ proc[p].settings.timeLimit = 2
           /\ proc[p].settings.defaultBehavior = "duplicate-no-query"
           /\ proc[p].settings.showNotifications
    /\ proc["U"].pc \notin {"idle", "load", "done"} =>
         /\ proc["U"].settings.enabled
         /\ proc["U"].settings.unloadTimeout = 30
    /\ (proc["R"].pc = "done" /\ fired.unload = clock) => ReaperActive

\* C30: no reaper run is started by the firing of the 1-minute alarm of the
\* scheduled unload sweep (nor of the inactivity sweep).
C30_ReaperOwnAlarmOnly ==
  [][(proc["R"].pc # "load" /\ proc'["R"].pc = "load")
       => fired'.unload = fired.unload /\ fired'.inactive = fired.inactive]_vars

\* C31: with the stored showNotifications false no notification is ever
\* raised; with it true, once no sweep is in flight, the notifications raised
\* for closes (every title but "Tab Unloaded") are exactly one for each tab
\* that an inactivity sweep has closed.
C31_OneNotificationPerClose ==
  /\ store.showNotifications = <<FALSE>> => notifications = <<>>
  /\ (store.showNotifications = <<TRUE>> /\ Quiet)
       => Cardinality({k \in DOMAIN notifications : notifications[k] # "Tab Unloaded"})
            = Cardinality({t \in TabIds : ClosedBySweep(t)})

\* C32: whenever no sweep is in flight and no initializeTabActivity, focus
\* handler or re-stamp callback waits on its tabs.query, every key of the
\* Activity Ledger is the id of an open tab.
C32_LedgerKeysAreOpenTabs ==
  (Quiet /\ bootPend = 0 /\ focusPend = <<>> /\ restampPend = <<>>)
    => \A t \in DOMAIN tabActivity : tabs[t].status = "open"

\* C33: every storage.local.set of addToHistory that resolves, in whichever
\* sweep and with whatever other sweep in flight, stores the log as it stood
\* before the step with the caller's entry appended (and the oldest entry
\* dropped once the capacity is exceeded): no entry appended meanwhile is lost.
C33_NoAppendLost ==
  [][\A p \in Procs :
       (proc[p].pc = "hist_set" /\ proc'[p].pc # "hist_set")
         => closedTabs' = PushCapped(closedTabs, proc[p].hist[Len(proc[p].hist)])]_vars

\* C34: a closed entry is in the history only for a tab that an inactivity
\* sweep removed: once a sweep has ended, every tab it decided to close, and
\* whose URL the log shows as closed, was removed by an inactivity sweep.
C34_EntryOnlyAfterSuccess ==
  \A p \in InactiveProcs : \A t \in TabIds :
    (/\ proc[p].pc = "done"
     /\ proc[p].evals[t].v = "close"
     /\ \E k \in DOMAIN closedTabs :
          closedTabs[k].type = "closed" /\ closedTabs[k].url = tabs[t].url)
      => ClosedBySweep(t)

\* C35: with timeLimit of 1 minute or more, a tab that has been the active
\* tab since the script was loaded (no browser event has occurred) is not
\* closed by an inactivity sweep, whichever of the re-stamp callback and
\* the sweep alarm comes first in a minute.
C35_ActiveTabNeverClosed ==
  StoreGet("timeLimit", 2) >= 1 =>
    \A t \in TabIds :
      (ClosedBySweep(t) /\ fired.events = 0) => ~SnapTab(t).active

\* C36: on the step on which an inactivity sweep removes a tab that was
\* activated after the sweep took its snapshot (the snapshot shows it not
\* active, the browser shows it active), the time since the tab's Activity
\* Ledger entry, as getTabLastAccess answers just before the call, is
\* timeLimit minutes or more.
C36_CloseOnlyWhenStale ==
  [][\A p \in InactiveProcs :
       (/\ proc[p].pc = "remove" /\ proc'[p].pc = "forget"
        /\ ~CurTab(p).active /\ tabs[CurTab(p).id].active)
         => clock - getTabLastAccess(CurTab(p).id)
              >= proc[p].settings.timeLimit * MinuteMs]_vars

\* C37: two scheduled unload passes that are both past the interval gate
\* and issuing discards took their now at least unloadTimeout minutes apart,
\* and no scheduled pass has issued a discard earlier than unloadTimeout
\* minutes after the first tick of the alarm (one minute after the load).
C37_PassesSpacedApart ==
  LET interval == StoreGet("unloadTimeout", 30) * MinuteMs
      issuing == {p \in ScheduledProcs : proc[p].pc \notin {"idle", "load", "query", "done"}}
  IN /\ \A p, q \in issuing :
          p # q => \/ proc[p].now - proc[q].now >= interval
                   \/ proc[q].now - proc[p].now >= interval
     /\ \A d \in discardedBy :
          d.by \in ScheduledProcs => d.at >= 1 + MinuteMs + interval

C39_KeysAreSchemeHostPath ==
  \A p \in InactiveProcs : \A x, y \in SeqRange(proc[p].tabs) :
    x.id # y.id =>
      /\ (y \in QueryDuplicates(x, proc[p].tabs))
           <=> (x.url[1] = y.url[1] /\ x.url[2] = y.url[2] /\ x.url[3] = y.url[3])
      /\ (y \in DomainDuplicates(x, proc[p].tabs)) <=> (x.url[2] = y.url[2])

\* C40: every invocation of a sweep that is in flight ends; while it is in
\* flight its index into the snapshot never moves back, and it moves on
\* whenever the invocation has finished with a tab (after tabActivity.delete,
\* after addToHistory of a discard, after a rejected discard).
C40_SweepsFinish ==
  /\ \A p \in Procs : (proc[p].pc \notin {"idle", "done"}) ~> (proc[p].pc = "done")
  /\ [][\A p \in Procs :
          (proc'[p] # proc[p] /\ proc[p].pc \notin {"idle", "load", "query", "done"}
             /\ proc'[p].pc # "done")
            => /\ proc'[p].i >= proc[p].i
               /\ (\/ proc[p].pc \in {"forget", "next"}
                   \/ proc[p].pc = "discard" /\ tabs[CurTab(p).id].status # "open")
                    => proc'[p].i > proc[p].i]_vars

\* At minute MaxClock every sweep has run and ended, an inactivity sweep
\* having closed a tab and an unload sweep having discarded one.
C40_Witness ==
  /\ clock = MaxClock
  /\ \A p \in {"L1", "L2", "U", "M", "R"} : proc[p].pc = "done"
  /\ \E t \in TabIds : ClosedBySweep(t)
  /\ \E d \in discardedBy : d.ok
====
